---------------------------- MODULE Spec2Model ----------------------------
(* LitSync browser extension: the response-completion watcher of content.js *)
(* (watcherTick and its helpers) and the response shortener of              *)
(* responseShortener.js (processShorteningForContainer and its helpers),    *)
(* modelled as state machines driven by the page, the timers and the        *)
(* settings store.                                                          *)
EXTENDS Integers, Sequences, FiniteSets, TLC

(***************************************************************************)
(* Program constants                                                       *)
(***************************************************************************)
WATCHER_TICK_INTERVAL_MS == 300
RESPONSE_DEBOUNCE_MS == 1200
\* JavaScript null of watcherSystem.stableSince (Date.now() is never negative)
NULL == -1
\* lastContentLength "unset"
UNSET_LENGTH == -1

(***************************************************************************)
(* Bounds of the model                                                     *)
(***************************************************************************)
\* the clock stops after this many tick intervals
MaxClockTicks == 15
\* settings reads that may be in flight at once
MaxPendingReads == 1

\* mutations the page makes to the message containers in one run
MaxPageMutations == 4
\* timer ids a content area may have in use at once
MaxTimerIds == 2

\* textContent.length values the page shows in the latest message
Lengths == {0, 10, 15}
\* setInterval fires a tick one interval after the previous one, or two when
\* the browser delays it
TickGaps == {WATCHER_TICK_INTERVAL_MS, 2 * WATCHER_TICK_INTERVAL_MS}

\* chrome.storage.sync.get default of watcherTick
DefaultSoundSettings ==
    [isNull |-> FALSE, enabled |-> FALSE, sound |-> "complete1", volume |-> 5]
\* watcherSystem.soundSettings before the first read
NullSoundSettings ==
    [isNull |-> TRUE, enabled |-> FALSE, sound |-> "", volume |-> 0]
\* values the user may have saved under the key soundSettings
SavedSoundSettings ==
    { [isNull |-> FALSE, enabled |-> TRUE, sound |-> "complete2", volume |-> 8] }

VARIABLES
    \* ---- watcherSystem (content.js) ----
    status,             \* "IDLE" | "GENERATING"
    lastContentLength,  \* -1 when unset
    stableSince,        \* NULL or a timestamp
    soundSettings,      \* snapshot of the sound settings, NullSoundSettings at start
    \* ---- the continuation of watcherTick after its await ----
    pendingReads,       \* number of chrome.storage.sync.get calls not yet settled
    \* ---- environment of the watcher ----
    now,                \* Date.now()
    runButton,          \* "absent" | "Run" | "Stop": textContent of .run-button
    latest,             \* "none" | "noArea" | "area": latest message container
    textLength,         \* contentArea.textContent.length of the latest container
    storedSound,        \* the key soundSettings of chrome.storage.sync
    \* ---- history of the current generation (observation only) ----
    fired,              \* GENERATING->IDLE transitions since the last IDLE->GENERATING
    sounds,             \* playCompletionSound calls since the last IDLE->GENERATING
    nSamples,           \* content samples since the last IDLE->GENERATING (capped)
    lastGrew,           \* the latest sample was greater than lastContentLength
    lastTwoEqual,       \* the latest two samples of this generation were equal
    prevSample,         \* the latest sample, NULL before the first
    scn,                \* how far this generation follows GrowthScenario, -1 when not
    changedInWindow,    \* since the stability timer was last started, a sample
                        \* differed from the sample before it
    grewInWindow,       \* since the stability timer was last started (its first
                        \* sample included), a sample exceeded lastContentLength
    readOutcome,        \* the settings read since the last IDLE->GENERATING:
                        \* "none" | "pending" | "settled" | "failed"
    soundError,         \* the error of this generation's playCompletionSound call:
                        \* "none" | "caught" | "escaped"
    quietTicks          \* GENERATING ticks in a row that found the label Run and
                        \* the page as the tick before left it (capped)

wvars == <<status, lastContentLength, stableSince, soundSettings, pendingReads,
           now, runButton, latest, textLength, storedSound,
           fired, sounds, nSamples, lastGrew, lastTwoEqual, prevSample, scn,
           changedInWindow, grewInWindow, readOutcome, soundError, quietTicks>>

\* ---- responseShortener.js: one entry per message container ----
VARIABLES
    html,               \* contentArea.innerHTML, a sequence of markup fragments
    phase,              \* dataset.litsyncShortened: "initial" (unset) | "streaming" | "final"
    prefixAttr,         \* dataset.litsyncHtmlBefore: [has, val]
    shortenInit,        \* container.dataset.litsyncShortenInit is set
    shortenObserverMap, \* the container has a connected observer in shortenObserverMap
    observers,          \* the MutationObservers connected to the content area
    debounceTimerMap,   \* the timer id debounceTimerMap holds for the content area, 0 for none
    timers,             \* the finalize timers that are set and have not fired
    throttleTimeout,    \* the throttled handler's timeoutId is set
    \* ---- the page ----
    hasArea,            \* the container has a content area (ms-cmark-node)
    pageMutations,      \* mutations the page has made so far
    \* ---- history (observation only) ----
    pageHtml,           \* the markup the page itself has produced for the message
    finals,             \* STREAMING->FINAL transitions of the container (capped)
    writes,             \* markup writes the shortener made to the container (capped)
    endSeen,            \* handler runs in STREAMING that found the end marker (capped)
    lastSeen,           \* the state the latest handler run found, "none" before the first
    finalWriteObserved, \* the observer was handed the write of STREAMING->FINAL
    rewireRefused       \* initializeShorteningForContainer returned early for the
                        \* container while it had no observer and was not FINAL

svars == <<html, phase, prefixAttr, shortenInit, shortenObserverMap, observers,
           debounceTimerMap, timers, throttleTimeout, hasArea, pageMutations,
           pageHtml, finals, writes, endSeen, lastSeen, finalWriteObserved,
           rewireRefused>>

\* ---- content.js: the DOM scanner and the shorten switch ----
VARIABLES
    isShortenEnabled,   \* the global isShortenEnabled
    processed,          \* the message container carries PROCESSED_MARKER
    syncButtons,        \* sync buttons appended to the message container (capped)
    promptWrapper,      \* the prompt wrapper: [attached, processed, craftButtons]
    \* ---- the page ----
    container,          \* "none" | "attached" | "removed": the message container
                        \* is not yet, is, or is no longer in the document
    \* ---- history (observation only) ----
    passedOver          \* a scan has run while the container carried the marker

cvars == <<isShortenEnabled, processed, syncButtons, promptWrapper, container,
           passedOver>>

\* ---- background.js: the message relay ----
VARIABLES
    requests            \* per request: [stage, type, payloadOk, outcome, responses, escaped]

rvars == <<requests>>

\* ---- keep_active.js, content.js initialize/dismantle, throttle ----
VARIABLES
    keepActive,         \* the keep-active module's state and its pending callbacks
    lifecycle,          \* domScannerInterval, watcherSystem.intervalId and the timers set
    throttler           \* one throttle(func, delay) closure with its timeout and a clock

xvars == <<keepActive, lifecycle, throttler>>

vars == <<wvars, svars, cvars, rvars, xvars>>


(***************************************************************************)
(* Response Completion Watcher: content.js, watcherTick                    *)
(***************************************************************************)
\* the scenario of the spec's "content growth resets stability" property,
\* continued by one more unchanged sample
GrowthScenario == <<10, 10, 15, 15, 15, 15>>

\* runButton.textContent.includes('Stop')
IsCurrentlyGenerating == runButton = "Stop"

\* an absent content area gives no length at all
Mutant_CurrentLength == IF latest = "area" THEN textLength ELSE UNSET_LENGTH

\* contentArea ? contentArea.textContent.length : 0
CurrentLength == IF latest = "area" THEN textLength ELSE 0

\* the values the store hands to chrome.storage.sync.get({soundSettings: default})
ReadSoundSettings ==
    IF storedSound.isNull THEN DefaultSoundSettings ELSE storedSound

\* ---- mutants of the watcher ----
\* the status is not reset by a completion
Mutant_StatusAfterCompletion == "GENERATING"

\* the completion check ignores the debounce window
Mutant_CompletionCondition(ss, t) ==
    /\ ~IsCurrentlyGenerating
    /\ ss # NULL

\* growth restarts the stability timer instead of clearing it
Mutant_StableSinceAfterSample(len, t) ==
    IF len > lastContentLength THEN t
    ELSE IF stableSince = NULL THEN t
    ELSE stableSince

\* the IDLE->GENERATING transition leaves stableSince as it was
Mutant_StableSinceAfterStart == stableSince

\* a running stability timer survives growth
Mutant_StableSinceKeptOnGrowth(len, t) ==
    IF stableSince # NULL THEN stableSince
    ELSE IF len > lastContentLength THEN NULL
    ELSE t

\* lastContentLength follows every sample, smaller ones included
Mutant_LastLengthAfterSample(len) == len

\* a non-growing sample restarts a running stability timer
Mutant_StableSinceRestarted(len, t) ==
    IF len > lastContentLength THEN NULL ELSE t

\* the IDLE->GENERATING transition leaves lastContentLength as it was
Mutant_LastLengthAfterStart == lastContentLength

\* stableSince after the stability update of a tick that samples length len at time t
StableSinceAfterSample(len, t) ==
    IF len > lastContentLength THEN NULL
    ELSE IF stableSince = NULL THEN t
    ELSE stableSince

\* lastContentLength after the stability update of a tick that samples length len
LastLengthAfterSample(len) ==
    IF len > lastContentLength THEN len ELSE lastContentLength

\* the completion condition of the tick, on the updated stableSince ss at time t
CompletionCondition(ss, t) ==
    /\ ~IsCurrentlyGenerating
    /\ ss # NULL
    /\ t - ss >= RESPONSE_DEBOUNCE_MS

\* the status watcherTick leaves after a completion
StatusAfterCompletion == "IDLE"

\* stableSince as the IDLE->GENERATING transition leaves it
StableSinceAfterStart == NULL

\* lastContentLength as the IDLE->GENERATING transition leaves it
LastLengthAfterStart == UNSET_LENGTH

\* whether a completion plays the sound
PlaysSound == ~soundSettings.isNull /\ soundSettings.enabled

\* what happens to the audio: it plays, new Audio(...) throws, or play() rejects
SoundOutcomes == {"plays", "throws", "rejects"}

\* playCompletionSound without its try block
Mutant_PlayCompletionSoundThrows(o) == o = "throws"

\* whether playCompletionSound(settings) throws to its caller: the try block
\* catches what new Audio throws, the .catch() what play() rejects with
PlayCompletionSoundThrows(o) == FALSE

\* watcherSystem.soundSettings after the settings read rejected: the
\* assignment after the await does not run
SoundSettingsAfterFailure == soundSettings

Cap(n, m) == IF n < m THEN n + 1 ELSE m

\* the ticks a generation needs at most to complete on a page at rest with
\* the label Run: one that samples a grown length, one that starts the
\* stability timer, and the ticks of one debounce window
QuietTicksToIdle == 2 + RESPONSE_DEBOUNCE_MS \div WATCHER_TICK_INTERVAL_MS

\* the position in GrowthScenario after a GENERATING tick, d after the previous tick
ScenarioStep(sampled, len, d) ==
    IF /\ sampled
       /\ scn >= 0 /\ scn < Len(GrowthScenario)
       /\ len = GrowthScenario[scn + 1]
       /\ ~IsCurrentlyGenerating
       /\ (scn = 0 \/ d = 2 * WATCHER_TICK_INTERVAL_MS)
    THEN scn + 1
    ELSE -1

WatcherEnvUnchanged ==
    UNCHANGED <<runButton, latest, textLength, storedSound, svars, cvars, rvars, xvars>>

\* if (!runButton) return;
TickNoButton ==
    /\ runButton = "absent"
    /\ scn' = IF status = "GENERATING" THEN -1 ELSE scn
    /\ UNCHANGED <<status, lastContentLength, stableSince, soundSettings,
                   pendingReads, fired, sounds, nSamples, lastGrew,
                   lastTwoEqual, prevSample, changedInWindow, grewInWindow,
                   readOutcome, soundError, quietTicks>>

\* IDLE -> GENERATING, up to the await of the settings read
TickStart ==
    /\ runButton # "absent"
    /\ status = "IDLE" /\ IsCurrentlyGenerating
    /\ pendingReads < MaxPendingReads
    /\ status' = "GENERATING"
    /\ lastContentLength' = LastLengthAfterStart
    /\ stableSince' = StableSinceAfterStart
    /\ pendingReads' = pendingReads + 1
    /\ fired' = 0 /\ sounds' = 0 /\ nSamples' = 0
    /\ lastGrew' = FALSE /\ lastTwoEqual' = FALSE /\ prevSample' = NULL
    /\ scn' = 0
    /\ changedInWindow' = FALSE /\ grewInWindow' = FALSE
    /\ readOutcome' = "pending" /\ soundError' = "none"
    /\ quietTicks' = 0
    /\ UNCHANGED soundSettings

\* the tick in GENERATING: stability update, then the completion check
TickGenerating(d, o) ==
    /\ runButton # "absent"
    /\ status = "GENERATING"
    /\ LET t == now + d
           sampled == latest # "none"
           len == CurrentLength
           ss == IF sampled THEN StableSinceAfterSample(len, t) ELSE stableSince
           done == CompletionCondition(ss, t)
           played == done /\ PlaysSound
           threw == played /\ PlayCompletionSoundThrows(o)
       IN /\ stableSince' = ss
          /\ lastContentLength' =
                IF sampled THEN LastLengthAfterSample(len) ELSE lastContentLength
          /\ status' = IF done /\ ~threw THEN StatusAfterCompletion ELSE status
          /\ fired' = IF done /\ ~threw THEN Cap(fired, 2) ELSE fired
          /\ sounds' = IF played THEN Cap(sounds, 2) ELSE sounds
          /\ soundError' = IF threw THEN "escaped"
                           ELSE IF played /\ o # "plays" THEN "caught"
                           ELSE soundError
          /\ changedInWindow' =
                /\ ss # NULL /\ ss = stableSince
                /\ (changedInWindow \/ (sampled /\ prevSample # len))
          /\ grewInWindow' =
                /\ ss # NULL
                /\ \/ sampled /\ len > lastContentLength
                   \/ grewInWindow /\ ss = stableSince
          /\ nSamples' = IF sampled THEN Cap(nSamples, 2) ELSE nSamples
          /\ lastGrew' = IF sampled THEN len > lastContentLength ELSE lastGrew
          /\ lastTwoEqual' = IF sampled THEN prevSample = len ELSE lastTwoEqual
          /\ prevSample' = IF sampled THEN len ELSE prevSample
          /\ scn' = ScenarioStep(sampled, len, d)
          /\ quietTicks' = IF IsCurrentlyGenerating THEN 0
                            ELSE Cap(quietTicks, QuietTicksToIdle)
    /\ UNCHANGED <<soundSettings, pendingReads, readOutcome>>

\* the tick in IDLE while the label does not say Stop
TickIdle ==
    /\ runButton # "absent"
    /\ status = "IDLE" /\ ~IsCurrentlyGenerating
    /\ UNCHANGED <<status, lastContentLength, stableSince, soundSettings,
                   pendingReads, fired, sounds, nSamples, lastGrew,
                   lastTwoEqual, prevSample, scn, changedInWindow,
                   grewInWindow, readOutcome, soundError, quietTicks>>

\* one call of watcherTick by setInterval, d after the previous one
WatcherTick(d) ==
    /\ now + d <= MaxClockTicks * WATCHER_TICK_INTERVAL_MS
    /\ now' = now + d
    /\ \/ TickNoButton
       \/ TickStart
       \/ \E o \in SoundOutcomes : TickGenerating(d, o)
       \/ TickIdle
    /\ WatcherEnvUnchanged

\* the await of TickStart settles: watcherSystem.soundSettings = soundSettings
SettingsReadSettles ==
    /\ pendingReads > 0
    /\ pendingReads' = pendingReads - 1
    /\ soundSettings' = ReadSoundSettings
    /\ readOutcome' = "settled"
    /\ UNCHANGED <<status, lastContentLength, stableSince, now, fired, sounds,
                   nSamples, lastGrew, lastTwoEqual, prevSample, scn,
                   changedInWindow, grewInWindow, soundError, quietTicks>>
    /\ WatcherEnvUnchanged

\* the await of TickStart rejects: the rest of that tick never runs
SettingsReadFails ==
    /\ pendingReads > 0
    /\ pendingReads' = pendingReads - 1
    /\ soundSettings' = SoundSettingsAfterFailure
    /\ readOutcome' = "failed"
    /\ UNCHANGED <<status, lastContentLength, stableSince, now,
                   fired, sounds, nSamples, lastGrew, lastTwoEqual, prevSample, scn,
                   changedInWindow, grewInWindow, soundError, quietTicks>>
    /\ WatcherEnvUnchanged

WatcherStateUnchanged ==
    UNCHANGED <<status, lastContentLength, stableSince, soundSettings,
                pendingReads, now, fired, sounds, nSamples, lastGrew,
                lastTwoEqual, prevSample, scn, changedInWindow,
                grewInWindow, readOutcome, soundError, svars,
                cvars, rvars, xvars>>

\* the page changes the label of the run button, or removes the button
PageSetsButton(b) ==
    /\ b # runButton
    /\ runButton' = b
    /\ quietTicks' = 0
    /\ UNCHANGED <<latest, textLength, storedSound>>
    /\ WatcherStateUnchanged

\* the page changes the latest message container or its text
PageSetsContent(c, len) ==
    /\ <<c, len>> # <<latest, textLength>>
    /\ c # "area" => len = 0
    /\ latest' = c
    /\ textLength' = len
    /\ quietTicks' = 0
    /\ UNCHANGED <<runButton, storedSound>>
    /\ WatcherStateUnchanged

\* the user saves or clears the sound settings
UserSavesSound(v) ==
    /\ v # storedSound
    /\ storedSound' = v
    /\ UNCHANGED <<runButton, latest, textLength, quietTicks>>
    /\ WatcherStateUnchanged

WatcherInit ==
    /\ status = "IDLE"
    /\ lastContentLength = UNSET_LENGTH
    /\ stableSince = NULL
    /\ soundSettings = NullSoundSettings
    /\ pendingReads = 0
    /\ now = 0
    /\ runButton \in {"absent", "Run"}
    /\ latest = "none"
    /\ textLength = 0
    /\ storedSound \in SavedSoundSettings \cup {NullSoundSettings}
    /\ fired = 0 /\ sounds = 0 /\ nSamples = 0
    /\ lastGrew = FALSE /\ lastTwoEqual = FALSE /\ prevSample = NULL
    /\ scn = -1
    /\ changedInWindow = FALSE /\ grewInWindow = FALSE
    /\ readOutcome = "none" /\ soundError = "none"
    /\ quietTicks = 0

WatcherNext ==
    \/ \E d \in TickGaps : WatcherTick(d)
    \/ SettingsReadSettles
    \/ SettingsReadFails
    \/ \E b \in {"absent", "Run", "Stop"} : PageSetsButton(b)
    \/ \E c \in {"none", "noArea", "area"}, len \in Lengths : PageSetsContent(c, len)
    \/ \E v \in SavedSoundSettings \cup {NullSoundSettings} : UserSavesSound(v)



(***************************************************************************)
(* Response shortener: responseShortener.js                                *)
(***************************************************************************)
\* the message containers of the document
Containers == {"c1", "c2"}

\* markup fragments: "a" is any complete element or text without marker text,
\* "S" is START_TAG_ESCAPED, "E" is END_TAG_ESCAPED, "PH" is the outerHTML of
\* createShortenedPlaceholder()
START_TAG_ESCAPED == "S"
END_TAG_ESCAPED == "E"
Placeholder == "PH"
PageFragments == {"a", START_TAG_ESCAPED, END_TAG_ESCAPED}

TimerIds == 1..MaxTimerIds

NoPrefix == [has |-> FALSE, val |-> <<>>]

\* String.prototype.indexOf on fragments: the 0-based position of the first
\* occurrence, -1 when there is none
IndexOf(str, frag) ==
    IF \E i \in 1..Len(str) : str[i] = frag
    THEN (CHOOSE i \in 1..Len(str) :
             str[i] = frag /\ \A j \in 1..(i - 1) : str[j] # frag) - 1
    ELSE -1

\* String.prototype.includes
Includes(str, frag) == \E i \in 1..Len(str) : str[i] = frag

\* String.prototype.substring(from, to) and substring(from), 0-based
Substring(str, from, to) == SubSeq(str, from + 1, to)
SubstringFrom(str, from) == SubSeq(str, from + 1, Len(str))

\* the shortener's state, with the mutation records queued for each observer
\* during the running task
ShortenerState ==
    [html |-> html, phase |-> phase, prefixAttr |-> prefixAttr,
     shortenInit |-> shortenInit, shortenObserverMap |-> shortenObserverMap,
     observers |-> observers, hasArea |-> hasArea,
     debounceTimerMap |-> debounceTimerMap, timers |-> timers,
     throttleTimeout |-> throttleTimeout,
     records |-> [c \in Containers |-> FALSE],
     finals |-> finals, writes |-> writes, endSeen |-> endSeen,
     lastSeen |-> lastSeen, finalWriteObserved |-> finalWriteObserved,
     rewireRefused |-> rewireRefused]

\* contentArea.innerHTML = markup: a connected observer gets a mutation record
SetInnerHTML(s, c, markup) ==
    [s EXCEPT !.html[c] = markup,
              !.records[c] = @ \/ s.shortenObserverMap[c]]

\* the function throttle() returns, called: schedules func unless already scheduled
ThrottledProcess(s, c) == [s EXCEPT !.throttleTimeout[c] = TRUE]

\* end of the task: the queued records are delivered to the observer's callback
DeliverRecords(s, c) ==
    IF s.records[c] /\ s.shortenObserverMap[c]
    THEN [ThrottledProcess(s, c) EXCEPT !.records[c] = FALSE]
    ELSE [s EXCEPT !.records[c] = FALSE]

\* cleanupShortening of all containers by one call (not what the code does)
Mutant_CleanupShorteningForContainer(s, c) ==
    [s EXCEPT !.shortenObserverMap = [x \in Containers |-> FALSE],
              !.observers = [x \in Containers |-> 0],
              !.records = [x \in Containers |-> FALSE],
              !.timers = [x \in Containers |-> {}],
              !.debounceTimerMap = [x \in Containers |-> 0]]

\* the observer is disconnected, the map entry of the timer is deleted, but
\* the timer is not cleared
Mutant_CleanupKeepsTimer(s, c) ==
    [s EXCEPT !.shortenObserverMap[c] = FALSE, !.observers[c] = 0,
              !.records[c] = FALSE, !.debounceTimerMap[c] = 0]

\* cleanupShorteningForContainer(container)
CleanupShorteningForContainer(s, c) ==
    LET s1 == IF s.shortenObserverMap[c]
              THEN [s EXCEPT !.shortenObserverMap[c] = FALSE,
                             !.observers[c] = @ - 1,
                             !.records[c] = FALSE]
              ELSE s
        timer == s1.debounceTimerMap[c]
    IN IF s1.hasArea[c] /\ timer # 0
       THEN [s1 EXCEPT !.timers[c] = @ \ {timer}, !.debounceTimerMap[c] = 0]
       ELSE s1

\* the id setTimeout returns: one that no pending timer of the area has
FreshTimer(s, c) == CHOOSE id \in TimerIds \ s.timers[c] :
                        \A other \in TimerIds \ s.timers[c] : id <= other

\* the callback never gives up
Mutant_MarkerGone(finalEndIndex) == FALSE

\* the finalize timer's callback gives up when the end marker is gone
MarkerGone(finalEndIndex) == finalEndIndex = -1

\* the callback writes without cleaning up first
Mutant_BeforeFinalWrite(s, c) == s

\* the container's state before the final markup is written: the callback
\* calls cleanupShorteningForContainer first
BeforeFinalWrite(s, c) == CleanupShorteningForContainer(s, c)

\* the callback leaves the recorded prefix on the content area
Mutant_PrefixAfterFinalize(s, c) == s.prefixAttr[c]

\* contentArea.removeAttribute(PREFIX_ATTR)
PrefixAfterFinalize(s, c) == NoPrefix

\* the callback of the finalize timer set by processShorteningForContainer
FinalizeCallback(s, c) ==
    LET finalHtmlContent == s.html[c]
        finalEndIndex == IndexOf(finalHtmlContent, END_TAG_ESCAPED)
    IN IF MarkerGone(finalEndIndex) THEN s
       ELSE LET s1 == BeforeFinalWrite(s, c)
                htmlBefore == IF s1.prefixAttr[c].has THEN s1.prefixAttr[c].val ELSE <<>>
                htmlAfter == SubstringFrom(finalHtmlContent, finalEndIndex + 1)
                s2 == SetInnerHTML(s1, c, htmlBefore \o <<Placeholder>> \o htmlAfter)
            IN [s2 EXCEPT !.phase[c] = "final",
                          !.prefixAttr[c] = PrefixAfterFinalize(s2, c),
                          !.debounceTimerMap[c] = 0,
                          !.finals[c] = Cap(@, 2),
                          !.writes[c] = Cap(@, 3),
                          !.finalWriteObserved[c] = @ \/ s2.records[c]]

\* the timer the map holds is left pending
Mutant_TimersAfterClear(s, c) == s.timers[c]

\* the timers left pending when a new finalize timer is set: the one the map
\* holds is cleared
TimersAfterClear(s, c) == s.timers[c] \ {s.debounceTimerMap[c]}

\* the new timer is set without clearing the pending one or recording its id
Mutant_ScheduleFinalize(s, c) ==
    [s EXCEPT !.timers[c] = @ \cup {FreshTimer(s, c)},
              !.endSeen[c] = Cap(@, 2)]

\* the streaming branch finalizes at once instead of setting the timer
Mutant_ScheduleFinalizeNow(s, c) ==
    FinalizeCallback([s EXCEPT !.endSeen[c] = Cap(@, 2)], c)

\* the streaming branch sees the end marker and sets no timer
Mutant_ScheduleNothing(s, c) == [s EXCEPT !.endSeen[c] = Cap(@, 2)]

\* streaming branch, end marker present: clear the pending timer, set a new one
ScheduleFinalize(s, c) ==
    LET s1 == [s EXCEPT !.timers[c] = TimersAfterClear(s, c)]
        newTimer == FreshTimer(s1, c)
    IN [s1 EXCEPT !.timers[c] = @ \cup {newTimer},
                  !.debounceTimerMap[c] = newTimer,
                  !.endSeen[c] = Cap(@, 2)]

\* the initial branch marks the container final at once
Mutant_StartShortening(s, c, startIndex) ==
    LET htmlBefore == Substring(s.html[c], 0, startIndex)
        s2 == SetInnerHTML(s, c, htmlBefore \o <<Placeholder>>)
    IN [s2 EXCEPT !.phase[c] = "final", !.writes[c] = Cap(@, 3)]

\* the initial branch puts the placeholder in the place of the start marker
\* and keeps what follows it
Mutant_StartShorteningKeepsRest(s, c, startIndex) ==
    LET htmlBefore == Substring(s.html[c], 0, startIndex)
        s1 == [s EXCEPT !.prefixAttr[c] = [has |-> TRUE, val |-> htmlBefore]]
        s2 == SetInnerHTML(s1, c, htmlBefore \o <<Placeholder>>
                                     \o SubstringFrom(s.html[c], startIndex + 1))
    IN [s2 EXCEPT !.phase[c] = "streaming", !.writes[c] = Cap(@, 3)]

\* initial branch, start marker at startIndex: keep the prefix, show the placeholder
StartShortening(s, c, startIndex) ==
    LET htmlBefore == Substring(s.html[c], 0, startIndex)
        s1 == [s EXCEPT !.prefixAttr[c] = [has |-> TRUE, val |-> htmlBefore]]
        s2 == SetInnerHTML(s1, c, htmlBefore \o <<Placeholder>>)
    IN [s2 EXCEPT !.phase[c] = "streaming", !.writes[c] = Cap(@, 3)]

\* the handler does not return in 'final'
Mutant_IsFinal(currentState) == FALSE

\* if (currentState === 'final') return;
IsFinal(currentState) == currentState = "final"

\* processShorteningForContainer(contentArea)
ProcessShorteningForContainer(s, c) ==
    LET currentState == s.phase[c]
        fullHtml == s.html[c]
        seen == [s EXCEPT !.lastSeen[c] = currentState]
    IN IF IsFinal(currentState) THEN seen
       ELSE IF currentState = "streaming"
            THEN IF Includes(fullHtml, END_TAG_ESCAPED)
                 THEN ScheduleFinalize(seen, c)
                 ELSE seen
            ELSE LET startIndex == IndexOf(fullHtml, START_TAG_ESCAPED)
                 IN IF startIndex > -1
                    THEN StartShortening(seen, c, startIndex)
                    ELSE seen

\* the marker flag of the container is not looked at
Mutant_AlreadyWired(s, c) == FALSE

\* container.dataset.litsyncShortenInit
AlreadyWired(s, c) == s.shortenInit[c]

\* initializeShorteningForContainer(container, contentArea)
InitializeShorteningForContainer(s, c) ==
    IF ~s.hasArea[c] \/ AlreadyWired(s, c)
    THEN [s EXCEPT !.rewireRefused[c] =
              @ \/ (s.hasArea[c] /\ ~s.shortenObserverMap[c] /\ s.phase[c] # "final")]
    ELSE ThrottledProcess([s EXCEPT !.shortenInit[c] = TRUE,
                                    !.observers[c] = Cap(@, 2),
                                    !.shortenObserverMap[c] = TRUE], c)

\* the shortener's state as a task leaves it
CommitState(t) ==
    /\ html' = t.html
    /\ phase' = t.phase
    /\ prefixAttr' = t.prefixAttr
    /\ shortenInit' = t.shortenInit
    /\ shortenObserverMap' = t.shortenObserverMap
    /\ observers' = t.observers
    /\ hasArea' = t.hasArea
    /\ debounceTimerMap' = t.debounceTimerMap
    /\ timers' = t.timers
    /\ throttleTimeout' = t.throttleTimeout
    /\ finals' = t.finals
    /\ writes' = t.writes
    /\ endSeen' = t.endSeen
    /\ lastSeen' = t.lastSeen
    /\ finalWriteObserved' = t.finalWriteObserved
    /\ rewireRefused' = t.rewireRefused

\* the state a task leaves behind, once its mutation records are delivered
Commit(s, c) == CommitState(DeliverRecords(s, c))

\* the scanner wires the container
InitializeShortening(c) ==
    /\ Commit(InitializeShorteningForContainer(ShortenerState, c), c)
    /\ UNCHANGED <<pageMutations, pageHtml, wvars, cvars, rvars, xvars>>

\* the throttle timeout fires: func.apply(...); timeoutId = null
ThrottleFires(c) ==
    /\ throttleTimeout[c]
    /\ (phase[c] = "streaming" /\ Includes(html[c], END_TAG_ESCAPED)
            => TimerIds \ TimersAfterClear(ShortenerState, c) # {})
    /\ LET s1 == ProcessShorteningForContainer(ShortenerState, c)
       IN Commit([s1 EXCEPT !.throttleTimeout[c] = FALSE], c)
    /\ UNCHANGED <<pageMutations, pageHtml, wvars, cvars, rvars, xvars>>

\* the finalize timer id fires
DebounceFires(c, id) ==
    /\ id \in timers[c]
    /\ Commit(FinalizeCallback([ShortenerState EXCEPT !.timers[c] = @ \ {id}], c), c)
    /\ UNCHANGED <<pageMutations, pageHtml, wvars, cvars, rvars, xvars>>

\* the feature is switched off or the extension dismantled
CleanupShortening(c) ==
    /\ Commit(CleanupShorteningForContainer(ShortenerState, c), c)
    /\ UNCHANGED <<pageMutations, pageHtml, wvars, cvars, rvars, xvars>>

\* the page gives the message container its content area
PageAddsArea(c) ==
    /\ container[c] = "attached"
    /\ ~hasArea[c]
    /\ Commit([ShortenerState EXCEPT !.hasArea[c] = TRUE], c)
    /\ UNCHANGED <<pageMutations, pageHtml, wvars, cvars, rvars, xvars>>

\* the page streams one more fragment into the message
PageAppends(c, frag) ==
    /\ container[c] = "attached"
    /\ hasArea[c]
    /\ pageMutations < MaxPageMutations
    /\ pageMutations' = pageMutations + 1
    /\ pageHtml' = [pageHtml EXCEPT ![c] = Append(@, frag)]
    /\ Commit(SetInnerHTML(ShortenerState, c, Append(html[c], frag)), c)
    /\ UNCHANGED <<wvars, cvars, rvars, xvars>>

\* the page takes back the fragment it streamed last
PageRemovesLast(c) ==
    /\ container[c] = "attached"
    /\ pageMutations < MaxPageMutations
    /\ Len(html[c]) > 0 /\ html[c][Len(html[c])] # Placeholder
    /\ Len(pageHtml[c]) > 0
    /\ pageMutations' = pageMutations + 1
    /\ pageHtml' = [pageHtml EXCEPT ![c] = SubSeq(@, 1, Len(@) - 1)]
    /\ Commit(SetInnerHTML(ShortenerState, c, SubSeq(html[c], 1, Len(html[c]) - 1)), c)
    /\ UNCHANGED <<wvars, cvars, rvars, xvars>>

ShortenerInit ==
    /\ html = [c \in Containers |-> <<>>]
    /\ phase = [c \in Containers |-> "initial"]
    /\ prefixAttr = [c \in Containers |-> NoPrefix]
    /\ shortenInit = [c \in Containers |-> FALSE]
    /\ shortenObserverMap = [c \in Containers |-> FALSE]
    /\ observers = [c \in Containers |-> 0]
    /\ hasArea = [c \in Containers |-> FALSE]
    /\ debounceTimerMap = [c \in Containers |-> 0]
    /\ timers = [c \in Containers |-> {}]
    /\ throttleTimeout = [c \in Containers |-> FALSE]
    /\ pageMutations = 0
    /\ pageHtml = [c \in Containers |-> <<>>]
    /\ finals = [c \in Containers |-> 0]
    /\ writes = [c \in Containers |-> 0]
    /\ endSeen = [c \in Containers |-> 0]
    /\ lastSeen = [c \in Containers |-> "none"]
    /\ finalWriteObserved = [c \in Containers |-> FALSE]
    /\ rewireRefused = [c \in Containers |-> FALSE]

ShortenerNext ==
    \/ \E c \in Containers : InitializeShortening(c)
    \/ \E c \in Containers : ThrottleFires(c)
    \/ \E c \in Containers : \E id \in TimerIds : DebounceFires(c, id)
    \/ \E c \in Containers : CleanupShortening(c)
    \/ \E c \in Containers : PageAddsArea(c)
    \/ \E c \in Containers : \E frag \in PageFragments : PageAppends(c, frag)
    \/ \E c \in Containers : PageRemovesLast(c)

(***************************************************************************)
(* DOM scanner and shorten switch: content.js                              *)
(***************************************************************************)
\* the selector of the scan without :not(.PROCESSED_MARKER)
Mutant_Unprocessed(c) == container[c] = "attached"

\* document.querySelectorAll(MESSAGE_CONTAINER_SELECTOR:not(.PROCESSED_MARKER))
Unprocessed(c) == container[c] = "attached" /\ ~processed[c]

\* document.querySelectorAll(PROMPT_WRAPPER_SELECTOR:not(.PROCESSED_MARKER))
WrapperUnprocessed == promptWrapper.attached /\ ~promptWrapper.processed

\* document.querySelectorAll(MESSAGE_CONTAINER_SELECTOR)
InDocument == {c \in Containers : container[c] = "attached"}

\* forEach(container => initializeShorteningForContainer(container, contentArea))
RECURSIVE InitializeAll(_, _)
InitializeAll(s, cs) ==
    IF cs = {} THEN s
    ELSE LET c == CHOOSE x \in cs : TRUE
         IN InitializeAll(InitializeShorteningForContainer(s, c), cs \ {c})

\* forEach(container => cleanupShorteningForContainer(container))
RECURSIVE CleanupAll(_, _)
CleanupAll(s, cs) ==
    IF cs = {} THEN s
    ELSE LET c == CHOOSE x \in cs : TRUE
         IN CleanupAll(CleanupShorteningForContainer(s, c), cs \ {c})

\* switching the feature off tears nothing down
Mutant_SwitchedOffCleanup(s) == s

\* the onChanged listener, isShortenEnabled now false
SwitchedOffCleanup(s) == CleanupAll(s, InDocument)

\* one call of scanAndProcessMessages by setInterval
ScanAndProcessMessages ==
    LET found == {c \in Containers : Unprocessed(c)}
        wired == {c \in found : isShortenEnabled /\ hasArea[c]}
    IN /\ processed' = [c \in Containers |-> processed[c] \/ c \in found]
       /\ syncButtons' = [c \in Containers |->
                            IF c \in found THEN Cap(syncButtons[c], 2)
                            ELSE syncButtons[c]]
       /\ promptWrapper' =
             IF WrapperUnprocessed
             THEN [promptWrapper EXCEPT !.processed = TRUE,
                                        !.craftButtons = Cap(@, 2)]
             ELSE promptWrapper
       /\ passedOver' = [c \in Containers |->
                            passedOver[c] \/ (c \in InDocument /\ processed[c])]
       /\ CommitState(InitializeAll(ShortenerState, wired))
       /\ UNCHANGED <<isShortenEnabled, container, pageMutations, pageHtml,
                      wvars, rvars, xvars>>

\* chrome.storage.onChanged with changes.isShortenEnabled.newValue = v
ShortenSwitched(v) ==
    /\ v # isShortenEnabled
    /\ isShortenEnabled' = v
    /\ CommitState(IF v THEN ShortenerState ELSE SwitchedOffCleanup(ShortenerState))
    /\ UNCHANGED <<processed, syncButtons, promptWrapper, container, passedOver,
                   pageMutations, pageHtml, wvars, rvars, xvars>>

\* the page adds the message container to the document
PageAddsContainer(c) ==
    /\ container[c] = "none"
    /\ container' = [container EXCEPT ![c] = "attached"]
    /\ UNCHANGED <<isShortenEnabled, processed, syncButtons, promptWrapper,
                   passedOver, svars, wvars, rvars, xvars>>

\* the page removes the message container from the document
PageRemovesContainer(c) ==
    /\ container[c] = "attached"
    /\ container' = [container EXCEPT ![c] = "removed"]
    /\ UNCHANGED <<isShortenEnabled, processed, syncButtons, promptWrapper,
                   passedOver, svars, wvars, rvars, xvars>>

\* the page adds the prompt wrapper to the document
PageAddsWrapper ==
    /\ ~promptWrapper.attached
    /\ promptWrapper' = [promptWrapper EXCEPT !.attached = TRUE]
    /\ UNCHANGED <<isShortenEnabled, processed, syncButtons, container,
                   passedOver, svars, wvars, rvars, xvars>>

\* mutations the page makes while the scanner is looked at
MaxScanMutations == 2

\* the page streams one more fragment into a message of the document
PageStreams(c, frag) ==
    /\ pageMutations < MaxScanMutations
    /\ PageAppends(c, frag)

\* the scanner's state when initialize() starts it
ScannerInit ==
    /\ processed = [c \in Containers |-> FALSE]
    /\ syncButtons = [c \in Containers |-> 0]
    /\ promptWrapper = [attached |-> FALSE, processed |-> FALSE, craftButtons |-> 0]
    /\ passedOver = [c \in Containers |-> FALSE]

ScannerNext ==
    \/ ScanAndProcessMessages
    \/ \E v \in BOOLEAN : ShortenSwitched(v)
    \/ \E c \in Containers : PageAddsContainer(c)
    \/ \E c \in Containers : PageRemovesContainer(c)
    \/ PageAddsWrapper
    \/ \E c \in Containers : PageAddsArea(c)
    \/ \E c \in Containers : \E frag \in PageFragments : PageStreams(c, frag)
    \/ \E c \in Containers : ThrottleFires(c)
    \/ \E c \in Containers : \E id \in TimerIds : DebounceFires(c, id)

(***************************************************************************)
(* Message relay: background.js                                            *)
(***************************************************************************)
\* messages the relay receives in one run
MaxRequests == 2
RequestIds == 1..MaxRequests

\* the cases of the switch on message.type
MessageTypes == {"GET_CLIENTS", "PREVIEW_SYNC", "SYNC_DATA", "GET_FILE_TREE",
                 "GET_FILE_CONTENT", "GENERATE_PROMPT", "CONTEXT7_SEARCH",
                 "CONTEXT7_GET_DOC", "TOGGLE_KEEP_ACTIVE"}

\* a message type the switch has no case for
UnknownType == "OTHER"

\* the handlers that dereference or validate the payload before their request
ReadsPayload(type) ==
    type \in {"GET_FILE_TREE", "GET_FILE_CONTENT", "GENERATE_PROMPT",
              "CONTEXT7_SEARCH", "CONTEXT7_GET_DOC", "TOGGLE_KEEP_ACTIVE"}

\* a message that has not been sent: stage is "unsent" | "handling" |
\* "settled", outcome "none" | "completed" | "threw" | "unknown", responses
\* the sendResponse calls made for it
NoRequest == [stage |-> "unsent", type |-> "", payloadOk |-> TRUE,
              outcome |-> "none", responses |-> <<>>, escaped |-> FALSE]

\* the listener without its try/catch: the error leaves the async function
Mutant_OnError(r, why) ==
    [r EXCEPT !.stage = "settled", !.outcome = why, !.escaped = TRUE]

\* catch (error) { sendResponse({ success: false, error: error.message }) }
OnError(r, why) ==
    [r EXCEPT !.stage = "settled", !.outcome = why,
              !.responses = Append(@, "failure")]

\* sendResponse({ success: true, data: responseData })
OnCompleted(r) ==
    [r EXCEPT !.stage = "settled", !.outcome = "completed",
              !.responses = Append(@, "success")]

\* the listener is called with a message (messages are numbered in the order
\* they arrive): the switch calls the handler of the type and awaits it, or
\* throws in its default branch
ListenerReceives(id, type, ok) ==
    /\ requests[id].stage = "unsent"
    /\ \A other \in RequestIds : other < id => requests[other].stage # "unsent"
    /\ LET r == [requests[id] EXCEPT !.type = type, !.payloadOk = ok]
       IN requests' = [requests EXCEPT ![id] =
                          IF type \in MessageTypes
                          THEN [r EXCEPT !.stage = "handling"]
                          ELSE OnError(r, "unknown")]
    /\ UNCHANGED <<wvars, svars, cvars, xvars>>

\* the awaited handler returns its data
HandlerCompletes(id) ==
    /\ requests[id].stage = "handling"
    /\ ReadsPayload(requests[id].type) => requests[id].payloadOk
    /\ requests' = [requests EXCEPT ![id] = OnCompleted(@)]
    /\ UNCHANGED <<wvars, svars, cvars, xvars>>

\* the awaited handler throws: bad payload, failed fetch, error status
HandlerThrows(id) ==
    /\ requests[id].stage = "handling"
    /\ requests' = [requests EXCEPT ![id] = OnError(@, "threw")]
    /\ UNCHANGED <<wvars, svars, cvars, xvars>>

RelayInit == requests = [id \in RequestIds |-> NoRequest]

RelayNext ==
    \/ \E id \in RequestIds, type \in MessageTypes \cup {UnknownType}, ok \in BOOLEAN :
          ListenerReceives(id, type, ok)
    \/ \E id \in RequestIds : HandlerCompletes(id)
    \/ \E id \in RequestIds : HandlerThrows(id)

(***************************************************************************)
(* Keep-active module: keep_active.js                                      *)
(***************************************************************************)
\* null of rafId, domPingIntervalId, domScannerInterval and timeoutId; the ids
\* requestAnimationFrame, setInterval and setTimeout return are positive
NO_ID == 0

MaxFrameRequests == 6
MaxPingIntervals == 3
MaxPings == 1

\* rafId = requestAnimationFrame(rafLoop)
RequestAnimationFrame(k) ==
    [k EXCEPT !.requested = @ + 1, !.rafId = k.requested + 1,
              !.frames = @ \cup {k.requested + 1}]

\* domPingIntervalId = setInterval(performLightDomPing, DOM_PING_INTERVAL_MS)
SetPingInterval(k) ==
    [k EXCEPT !.installed = @ + 1, !.domPingIntervalId = k.installed + 1,
              !.intervals = @ \cup {k.installed + 1}]

StartKeepingActive(k) ==
    IF k.isActive THEN k
    ELSE LET a == [k EXCEPT !.isActive = TRUE]
             b == IF a.rafId = NO_ID THEN RequestAnimationFrame(a) ELSE a
         IN IF b.domPingIntervalId = NO_ID THEN SetPingInterval(b) ELSE b

Mutant_FramesAfterCancel(frames, id) == frames

\* cancelAnimationFrame(rafId)
FramesAfterCancel(frames, id) == frames \ {id}

StopKeepingActive(k) ==
    IF ~k.isActive THEN k
    ELSE LET a == [k EXCEPT !.isActive = FALSE]
             b == IF a.rafId # NO_ID
                  THEN [a EXCEPT !.frames = FramesAfterCancel(@, a.rafId),
                                 !.rafId = NO_ID]
                  ELSE a
         IN IF b.domPingIntervalId # NO_ID
            THEN [b EXCEPT !.intervals = @ \ {b.domPingIntervalId},
                           !.domPingIntervalId = NO_ID]
            ELSE b

\* a call of start or stop from outside the module; calls alternates with
\* every call, so that a call that changes nothing is still a step
Called(k) == [k EXCEPT !.calls = 1 - @]

\* start and stop may set timers only while ids are left
IdsLeft(k) == k.requested < MaxFrameRequests /\ k.installed < MaxPingIntervals

KeepActiveUnchanged == UNCHANGED <<wvars, svars, cvars, rvars, lifecycle, throttler>>

\* the onMessage listener with message.type = 'TOGGLE_KEEP_ACTIVE'
ToggleKeepActive(enabled) ==
    /\ (enabled /\ ~keepActive.isActive) => IdsLeft(keepActive)
    /\ keepActive' = Called(IF enabled THEN StartKeepingActive(keepActive)
                            ELSE StopKeepingActive(keepActive))
    /\ KeepActiveUnchanged

\* the callback of chrome.storage.sync.get('keepActiveEnabled') at load
KeepActiveStartupRead(enabled) ==
    /\ keepActive.startupRead
    /\ (enabled /\ ~keepActive.isActive) => IdsLeft(keepActive)
    /\ keepActive' = [(IF enabled THEN Called(StartKeepingActive(keepActive))
                       ELSE keepActive) EXCEPT !.startupRead = FALSE]
    /\ KeepActiveUnchanged

\* the browser runs the frame callback id; lastRafTime only paces a log line
\* that is commented out and is left out
RafLoop(id) ==
    /\ id \in keepActive.frames
    /\ keepActive.requested < MaxFrameRequests
    /\ LET k == [keepActive EXCEPT !.frames = @ \ {id}]
       IN keepActive' = IF ~k.isActive THEN [k EXCEPT !.rafId = NO_ID]
                        ELSE RequestAnimationFrame(k)
    /\ KeepActiveUnchanged

\* the browser runs the interval id; the ping reads the body's size only
PerformLightDomPing(id) ==
    /\ id \in keepActive.intervals
    /\ keepActive.pings < MaxPings
    /\ keepActive' = [keepActive EXCEPT !.pings = @ + 1]
    /\ KeepActiveUnchanged

KeepActiveInit ==
    keepActive = [isActive |-> FALSE, rafId |-> NO_ID, domPingIntervalId |-> NO_ID,
                  frames |-> {}, intervals |-> {}, requested |-> 0,
                  installed |-> 0, pings |-> 0, calls |-> 0, startupRead |-> TRUE]

(***************************************************************************)
(* Extension lifecycle: content.js, initialize and dismantle               *)
(***************************************************************************)
MaxIntervalIds == 5
MaxPendingInits == 2

\* setInterval(f, ms) on the set of scheduled intervals
NewIntervalId(l) == l.timersSet + 1

\* initializeWatcherSystem()
InitializeWatcherSystem(l) ==
    [l EXCEPT !.watcherIntervals = (@ \ {l.watcherIntervalId}) \cup {NewIntervalId(l)},
              !.watcherIntervalId = NewIntervalId(l),
              !.timersSet = @ + 1]

\* dismantleWatcherSystem()
DismantleWatcherSystem(l) ==
    [l EXCEPT !.watcherIntervals = @ \ {l.watcherIntervalId},
              !.watcherIntervalId = NO_ID]

LifecycleUnchanged == UNCHANGED <<wvars, svars, cvars, rvars, keepActive, throttler>>

\* initialize(): the settings read is started and settles later
Initialize ==
    /\ \/ lifecycle.domScannerInterval # NO_ID
       \/ /\ lifecycle.timersSet < MaxIntervalIds
          /\ lifecycle.pendingReads < MaxPendingInits
    /\ lifecycle' =
          IF lifecycle.domScannerInterval # NO_ID
          THEN [lifecycle EXCEPT !.lastCall = "initialize"]
          ELSE InitializeWatcherSystem(
                   [lifecycle EXCEPT !.lastCall = "initialize",
                                     !.notificationContainer = TRUE,
                                     !.pendingReads = @ + 1])
    /\ LifecycleUnchanged

\* the callback of chrome.storage.sync.get inside initialize(); v is the stored
\* isShortenEnabled
InitializeReadSettles(v) ==
    /\ lifecycle.pendingReads > 0
    /\ lifecycle.timersSet < MaxIntervalIds
    /\ isShortenEnabled' = v
    /\ lifecycle' = [lifecycle EXCEPT
                        !.pendingReads = @ - 1,
                        !.domScannerInterval = NewIntervalId(lifecycle),
                        !.intervals = @ \cup {NewIntervalId(lifecycle)},
                        !.timersSet = @ + 1]
    /\ UNCHANGED <<processed, syncButtons, promptWrapper, container, passedOver,
                   wvars, svars, rvars, keepActive, throttler>>

\* dismantle()
Dismantle ==
    /\ lifecycle' = [DismantleWatcherSystem(lifecycle) EXCEPT
                        !.intervals = @ \ {lifecycle.domScannerInterval},
                        !.domScannerInterval = NO_ID,
                        !.notificationContainer = FALSE,
                        !.lastCall = "dismantle"]
    /\ keepActive' = Called(StopKeepingActive(keepActive))
    /\ CommitState(CleanupAll(ShortenerState, InDocument))
    /\ syncButtons' = [c \in Containers |->
                          IF c \in InDocument THEN 0 ELSE syncButtons[c]]
    /\ processed' = [c \in Containers |-> processed[c] /\ c \notin InDocument]
    /\ promptWrapper' = IF promptWrapper.attached
                        THEN [promptWrapper EXCEPT !.processed = FALSE,
                                                   !.craftButtons = 0]
                        ELSE promptWrapper
    /\ UNCHANGED <<isShortenEnabled, container, passedOver, pageMutations,
                   pageHtml, wvars, rvars, throttler>>

LifecycleInit ==
    lifecycle = [domScannerInterval |-> NO_ID, intervals |-> {},
                 watcherIntervalId |-> NO_ID, watcherIntervals |-> {},
                 pendingReads |-> 0, timersSet |-> 0,
                 notificationContainer |-> FALSE, lastCall |-> "none"]

KeepActiveNext ==
    \/ \E enabled \in BOOLEAN : ToggleKeepActive(enabled)
    \/ \E enabled \in BOOLEAN : KeepActiveStartupRead(enabled)
    \/ \E id \in 1..MaxFrameRequests : RafLoop(id)
    \/ \E id \in 1..MaxPingIntervals : PerformLightDomPing(id)
    \/ Dismantle

LifecycleNext ==
    \/ Initialize
    \/ \E v \in BOOLEAN : InitializeReadSettles(v)
    \/ Dismantle
    \/ \E enabled \in BOOLEAN : ToggleKeepActive(enabled)

(***************************************************************************)
(* throttle(func, delay): keep_active.js, responseShortener                *)
(***************************************************************************)
SHORTEN_PROCESS_THROTTLE_MS == 100

ThrottleClockStep == 50
MaxThrottleClock == 300
MaxBurst == 3

\* the arguments of a call; lastArgs is null before the first call
CallArgs == {1, 2}
NoArgs == 0

Mutant_ArgsAfterCall(t, args) == IF t.timeoutId = NO_ID THEN args ELSE t.lastArgs

\* lastArgs = args
ArgsAfterCall(t, args) == args

\* the function throttle returns, called with args at the time t.now; waiting
\* lists the calls that no invocation of func has followed yet
ThrottledCall(t, args) ==
    LET a == [t EXCEPT !.lastArgs = ArgsAfterCall(t, args),
                       !.waiting = Append(@, [at |-> t.now, args |-> args])]
    IN IF a.timeoutId = NO_ID
       THEN [a EXCEPT !.timeoutId = t.timeoutsSet + 1,
                      !.timeoutsSet = @ + 1,
                      !.dueAt = t.now + SHORTEN_PROCESS_THROTTLE_MS]
       ELSE a

\* the timeout's callback: func.apply(lastThis, lastArgs); timeoutId = null
ThrottleTimeout(t) ==
    [t EXCEPT !.invocations = @ + 1, !.invokedWith = t.lastArgs,
              !.served = Len(t.waiting), !.waiting = <<>>,
              !.timeoutId = NO_ID]

ThrottleUnchanged == UNCHANGED <<wvars, svars, cvars, rvars, keepActive, lifecycle>>

\* the mutation observer, or initializeShorteningForContainer, calls
\* throttledProcess
CallThrottled(args) ==
    /\ Len(throttler.waiting) < MaxBurst
    /\ throttler.now + SHORTEN_PROCESS_THROTTLE_MS <= MaxThrottleClock
    /\ throttler' = ThrottledCall(throttler, args)
    /\ ThrottleUnchanged

\* the timer runs the callback when the delay has passed
TimeoutFires ==
    /\ throttler.timeoutId # NO_ID
    /\ throttler.now >= throttler.dueAt
    /\ throttler' = ThrottleTimeout(throttler)
    /\ ThrottleUnchanged

\* time passes, not beyond the time a set timeout is due
TimePasses ==
    /\ throttler.now < MaxThrottleClock
    /\ throttler.timeoutId # NO_ID
          => throttler.now + ThrottleClockStep <= throttler.dueAt
    /\ throttler' = [throttler EXCEPT !.now = @ + ThrottleClockStep]
    /\ ThrottleUnchanged

ThrottleInit ==
    throttler = [timeoutId |-> NO_ID, lastArgs |-> NoArgs, dueAt |-> 0, now |-> 0,
                 timeoutsSet |-> 0, waiting |-> <<>>, invocations |-> 0,
                 invokedWith |-> NoArgs, served |-> 0]

ThrottleNext ==
    \/ \E args \in CallArgs : CallThrottled(args)
    \/ TimeoutFires
    \/ TimePasses

ExtensionInit == KeepActiveInit /\ LifecycleInit /\ ThrottleInit

(***************************************************************************)
(* Specifications                                                          *)
(***************************************************************************)
\* the watcher with the page, the store and the clock; no container is wired
WatcherSpecInit ==
    /\ WatcherInit /\ ShortenerInit /\ ScannerInit /\ RelayInit /\ ExtensionInit
    /\ isShortenEnabled = FALSE
    /\ container = [c \in Containers |-> "none"]

WatcherSpec == WatcherSpecInit /\ [][WatcherNext]_vars

\* the shortener with the page and its timers; the watcher is at rest
ShortenerSpecInit ==
    /\ WatcherInit /\ runButton = "Run" /\ storedSound = NullSoundSettings
    /\ ShortenerInit /\ ScannerInit /\ RelayInit /\ ExtensionInit
    /\ isShortenEnabled = TRUE
    /\ container = [c \in Containers |-> "attached"]

ShortenerSpec == ShortenerSpecInit /\ [][ShortenerNext]_vars

\* the shortener of one message container
OneContainerNext ==
    \/ InitializeShortening("c1")
    \/ ThrottleFires("c1")
    \/ \E id \in TimerIds : DebounceFires("c1", id)
    \/ CleanupShortening("c1")
    \/ PageAddsArea("c1")
    \/ \E frag \in PageFragments : PageAppends("c1", frag)
    \/ PageRemovesLast("c1")

\* one container, with the event loop running every timeout that stays due:
\* the throttle timeout and the finalize timers
ShortenerFairSpec ==
    /\ ShortenerSpecInit /\ [][OneContainerNext]_vars
    /\ WF_vars(ThrottleFires("c1"))
    /\ \A id \in TimerIds : WF_vars(DebounceFires("c1", id))

\* the scanner and the shorten switch with the shortener, the page and the
\* timers; the value of isShortenEnabled is what initialize() read from the
\* store; the watcher is at rest
ScannerSpecInit ==
    /\ WatcherInit /\ runButton = "Run" /\ storedSound = NullSoundSettings
    /\ ShortenerInit /\ ScannerInit /\ RelayInit /\ ExtensionInit
    /\ isShortenEnabled \in BOOLEAN
    /\ container = [c \in Containers |-> "none"]

ScannerSpec == ScannerSpecInit /\ [][ScannerNext]_vars

\* the background relay with the senders and the handlers' outcomes; the
\* content script is at rest
RelaySpecInit ==
    /\ WatcherInit /\ runButton = "Run" /\ storedSound = NullSoundSettings
    /\ ShortenerInit /\ ScannerInit /\ RelayInit /\ ExtensionInit
    /\ isShortenEnabled = FALSE
    /\ container = [c \in Containers |-> "none"]

RelaySpec == RelaySpecInit /\ [][RelayNext]_vars

\* the extension at rest on a page without messages: the parts below share
\* this initial state
RestInit ==
    /\ WatcherInit /\ runButton = "Run" /\ storedSound = NullSoundSettings
    /\ ShortenerInit /\ ScannerInit /\ RelayInit /\ ExtensionInit
    /\ isShortenEnabled = FALSE
    /\ container = [c \in Containers |-> "none"]

\* the keep-active module with the popup's messages, the browser's frame and
\* interval callbacks, and dismantle()
KeepActiveSpec == RestInit /\ [][KeepActiveNext]_vars

\* initialize(), its settings read and dismantle(), in any order
LifecycleSpec == RestInit /\ [][LifecycleNext]_vars

\* one throttled function with its callers, its timer and the clock
ThrottleSpec == RestInit /\ [][ThrottleNext]_vars

(***************************************************************************)
(* Claims about the watcher                                                *)
(***************************************************************************)
\* C1: the GENERATING->IDLE transition and its sound fire at most once per
\* generation: once it has fired the watcher is IDLE, and no later tick fires
\* it or the sound again before a new IDLE->GENERATING transition.
C1_CompletionFiresOnce ==
    /\ fired <= 1
    /\ sounds <= fired
    /\ (status = "GENERATING" => fired = 0)
    /\ (fired = 1 => status = "IDLE")

\* C1 witness: the scenario's generation completed with the sound played, and
\* at least one more tick ran with the label Run and the content unchanged.
C1_Witness ==
    /\ scn = Len(GrowthScenario)
    /\ fired = 1 /\ sounds = 1 /\ status = "IDLE"
    /\ runButton = "Run" /\ latest = "area" /\ textLength = 15
    /\ now >= stableSince + RESPONSE_DEBOUNCE_MS + WATCHER_TICK_INTERVAL_MS

\* C2: a step that takes the watcher from GENERATING to IDLE, or that plays
\* the sound, is a tick in which the label is not Stop, stableSince is set and
\* now - stableSince >= RESPONSE_DEBOUNCE_MS.
C2_CompletionOnlyWhenStable ==
    [][ ((status = "GENERATING" /\ status' = "IDLE")
            \/ fired' > fired \/ sounds' > sounds)
        => /\ runButton' = "Run"
           /\ stableSince' # NULL
           /\ now' - stableSince' >= RESPONSE_DEBOUNCE_MS ]_vars

\* C2 witness: a completion fired exactly when the debounce window had elapsed,
\* with the sound disabled.
C2_Witness ==
    /\ status = "IDLE" /\ fired = 1 /\ sounds = 0
    /\ runButton = "Run"
    /\ now - stableSince = RESPONSE_DEBOUNCE_MS

\* C9 as the spec states it: with samples 10, 10, 15, 15, 15 on the first five
\* ticks of a generation, two ticks to a debounce window, the transition fires
\* at the fifth sample and not before.
C9_FiresAtFifthSample ==
    /\ (scn \in 1..4 => status = "GENERATING")
    /\ (scn = 5 => status = "IDLE")

\* C9 amended: in that scenario the stability timer starts at the second
\* sample, is cleared at the third, starts again at the fourth, has run for one
\* tick period at the fifth, where nothing fires, and the transition fires at
\* the sixth tick when it samples 15 again.
C9_FiresAtSixthSample ==
    /\ (scn \in {1, 3} => stableSince = NULL)
    /\ (scn \in {2, 4} => stableSince = now)
    /\ (scn = 5 => stableSince = now - 2 * WATCHER_TICK_INTERVAL_MS)
    /\ (scn \in 1..5 => status = "GENERATING" /\ fired = 0)
    /\ (scn = 6 => status = "IDLE" /\ fired = 1 /\ lastContentLength = 15)

\* C9 witness: the six samples of the scenario have been taken.
C9_Witness == scn = 6 /\ status = "IDLE" /\ stableSince # NULL

\* C10 as the spec states it: stableSince is set only in GENERATING and only
\* when the latest two samples were equal.
C10_StableOnlyWhileGenerating ==
    stableSince # NULL => (status = "GENERATING" /\ lastTwoEqual)

\* C10 amended: stableSince is set only if this generation took at least two
\* samples and the latest did not exceed lastContentLength; it is never later
\* than the clock.  (It stays set in IDLE until the next IDLE->GENERATING.)
C10_StableOnlyAfterNoGrowth ==
    stableSince # NULL =>
        /\ nSamples >= 2
        /\ ~lastGrew
        /\ prevSample <= lastContentLength
        /\ lastContentLength >= 0
        /\ stableSince <= now

\* C10 witness: the watcher is IDLE after a completion and stableSince is still set.
C10_Witness == status = "IDLE" /\ stableSince # NULL /\ fired = 1

\* C11 as the spec states it, for a transition that fires as soon as the
\* debounce window has elapsed: the samples taken since the stability timer
\* started, which are the samples of that window, were all equal.
C11_WindowSamplesEqual ==
    [][ (fired' > fired /\ now' - stableSince' = RESPONSE_DEBOUNCE_MS)
        => ~changedInWindow' ]_vars

\* C11 amended: when GENERATING->IDLE fires, the stability timer has run for
\* at least the debounce window and no sample taken since it started exceeded
\* lastContentLength, the largest length sampled in the generation; samples
\* that are smaller than the one before, or larger without exceeding that
\* maximum, do not hold the completion back.
C11_NoGrowthInWindow ==
    [][ fired' > fired
        => /\ ~grewInWindow'
           /\ stableSince' # NULL
           /\ now' - stableSince' >= RESPONSE_DEBOUNCE_MS
           /\ lastContentLength' = lastContentLength
           /\ prevSample' <= lastContentLength' ]_vars

\* C11 witness: a completion fired one debounce window after the timer
\* started, and the samples of that window were not all equal.
C11_Witness ==
    /\ status = "IDLE" /\ fired = 1
    /\ now - stableSince = RESPONSE_DEBOUNCE_MS
    /\ changedInWindow /\ prevSample < lastContentLength

\* C12: the tick that takes the watcher from IDLE to GENERATING runs with the
\* label Stop, sets lastContentLength to -1 and stableSince to null, issues
\* one settings read, takes no sample and fires no completion; the settled
\* read assigns the store's value (the default when nothing is saved) to
\* soundSettings and changes nothing else of the watcher.
C12_StartTransition ==
    [][ /\ (status = "IDLE" /\ status' = "GENERATING")
            => /\ now' > now /\ runButton = "Stop"
               /\ lastContentLength' = UNSET_LENGTH
               /\ stableSince' = NULL
               /\ pendingReads' = pendingReads + 1
               /\ soundSettings' = soundSettings
               /\ nSamples' = 0 /\ fired' = 0 /\ sounds' = 0
        /\ (now' > now /\ status = "IDLE" /\ runButton = "Stop")
            => status' = "GENERATING"
        /\ SettingsReadSettles
            => /\ soundSettings' =
                    (IF storedSound.isNull THEN DefaultSoundSettings ELSE storedSound)
               /\ UNCHANGED <<status, lastContentLength, stableSince, fired, sounds>>
      ]_vars

\* C12 witness: a generation has started after an earlier one completed, no
\* sample has been taken yet and the saved settings have been loaded.
C12_Witness ==
    /\ status = "GENERATING" /\ lastContentLength = UNSET_LENGTH
    /\ stableSince = NULL /\ nSamples = 0 /\ fired = 0
    /\ readOutcome = "settled" /\ pendingReads = 0
    /\ soundSettings \in SavedSoundSettings
    /\ now >= RESPONSE_DEBOUNCE_MS + 4 * WATCHER_TICK_INTERVAL_MS

\* C13: when GENERATING->IDLE fires, the settings read issued by the
\* IDLE->GENERATING transition of that generation has settled, so the sound
\* decision uses its snapshot and soundSettings is not null.
C13_SnapshotOfSameGeneration ==
    [][ fired' > fired
        => readOutcome = "settled" /\ ~soundSettings.isNull ]_vars

\* C14 as the spec states it: a tick in which the run button or the content
\* area of the latest container is absent changes none of status,
\* lastContentLength, stableSince and soundSettings and plays no sound.
C14_AbsenceChangesNothing ==
    [][ (now' > now /\ (runButton = "absent" \/ latest = "noArea"))
        => /\ UNCHANGED <<status, lastContentLength, stableSince, soundSettings>>
           /\ sounds' <= sounds ]_vars

\* C14 amended: a tick in which the run button is absent changes none of
\* them and plays no sound; a GENERATING tick in which the content area of
\* the latest container is absent samples the length 0: lastContentLength
\* becomes 0 if it was -1, otherwise the stability timer starts if it is not
\* running, and the completion check runs on the result.
C14_AbsentAreaSamplesZero ==
    [][ now' > now
        => /\ runButton = "absent"
              => /\ UNCHANGED <<status, lastContentLength, stableSince, soundSettings>>
                 /\ sounds' = sounds /\ fired' = fired
           /\ (runButton # "absent" /\ latest = "noArea" /\ status = "GENERATING")
              => /\ lastContentLength' =
                      (IF lastContentLength = UNSET_LENGTH THEN 0 ELSE lastContentLength)
                 /\ stableSince' =
                      (IF lastContentLength = UNSET_LENGTH THEN NULL
                       ELSE IF stableSince = NULL THEN now' ELSE stableSince)
                 /\ soundSettings' = soundSettings
                 /\ (status' = "IDLE"
                        <=> (runButton = "Run" /\ stableSince' # NULL
                             /\ now' - stableSince' >= RESPONSE_DEBOUNCE_MS)) ]_vars

\* C14 witness: a generation completed, with its sound, in a tick that found
\* the content area absent; every sample of the generation was 0.
C14_Witness ==
    /\ status = "IDLE" /\ fired = 1 /\ sounds = 1
    /\ latest = "noArea" /\ lastContentLength = 0
    /\ now - stableSince = RESPONSE_DEBOUNCE_MS

\* C15: when the settings read of the IDLE->GENERATING transition fails,
\* soundSettings becomes the hardcoded default.
C15_ReadFailureFallsBack ==
    [][ SettingsReadFails => soundSettings' = DefaultSoundSettings ]_vars

\* C16: a tick that calls playCompletionSound completes the GENERATING->IDLE
\* transition whatever happens to the audio: status becomes IDLE, no error
\* leaves playCompletionSound, and lastContentLength, stableSince and
\* soundSettings are as the tick found them.
C16_SoundFailureAbsorbed ==
    [][ sounds' > sounds
        => /\ status = "GENERATING" /\ status' = "IDLE"
           /\ fired' = 1 /\ sounds' = 1
           /\ soundError' # "escaped"
           /\ UNCHANGED <<lastContentLength, stableSince, soundSettings,
                          pendingReads>> ]_vars

\* C16 witness: the completion's playback failed and the watcher is IDLE.
C16_Witness ==
    /\ status = "IDLE" /\ fired = 1 /\ sounds = 1
    /\ soundError = "caught"
    /\ now - stableSince >= RESPONSE_DEBOUNCE_MS

\* a tick of watcherTick that samples the content while GENERATING
SamplingTick ==
    /\ now' > now
    /\ status = "GENERATING" /\ runButton # "absent" /\ latest # "none"

\* C25 as the spec states it: once a GENERATING tick has sampled the content,
\* lastContentLength equals the length observed by the latest sampling tick.
C25_LengthIsLatestSample ==
    nSamples > 0 => lastContentLength = prevSample

\* C25 amended: lastContentLength is the largest length sampled since the
\* latest IDLE->GENERATING transition (0 counts for an absent content area):
\* a sampling tick raises it to the sample when the sample is larger and
\* leaves it otherwise, so it is never below the latest sample; it is -1
\* exactly while no sample has been taken since that transition, or since
\* the watcher was set up.
C25_LengthIsHighWaterMark ==
    [][ /\ SamplingTick
            => lastContentLength' =
                 (IF CurrentLength > lastContentLength
                  THEN CurrentLength ELSE lastContentLength)
        /\ nSamples' > 0 => lastContentLength' >= prevSample'
        /\ nSamples' = 0 <=> lastContentLength' = UNSET_LENGTH ]_vars

\* C25 witness: the latest sample of a generation found the content area
\* absent after a sample of 15 characters.
C25_Witness ==
    /\ status = "GENERATING" /\ nSamples = 2
    /\ latest = "noArea" /\ prevSample = 0
    /\ lastContentLength = 15

\* C28: on a GENERATING tick with a latest message container, a sample
\* greater than lastContentLength clears stableSince and becomes
\* lastContentLength; otherwise a null stableSince becomes the time of the
\* tick, and a running stability timer and lastContentLength stay as they are.
C28_SamplingRules ==
    [][ SamplingTick
        => LET len == IF latest = "area" THEN textLength ELSE 0
           IN /\ len > lastContentLength
                 => stableSince' = NULL /\ lastContentLength' = len
              /\ (len <= lastContentLength /\ stableSince = NULL)
                 => stableSince' = now' /\ lastContentLength' = lastContentLength
              /\ (len <= lastContentLength /\ stableSince # NULL)
                 => UNCHANGED <<stableSince, lastContentLength>> ]_vars

\* C28 witness: a stability timer is running in GENERATING and a later
\* sample, different from the one before it, has left it running.
C28_Witness ==
    /\ status = "GENERATING" /\ stableSince # NULL /\ stableSince < now
    /\ changedInWindow /\ ~grewInWindow
    /\ prevSample < lastContentLength /\ latest = "area"

\* C34: a generation does not outlast QuietTicksToIdle ticks in a row that
\* found the run button with a label other than Stop and the page unchanged,
\* whether or not there is a message container or a content area.
C34_QuietGenerationEnds ==
    status = "GENERATING" => quietTicks < QuietTicksToIdle

(***************************************************************************)
(* Claims about the shortener                                              *)
(***************************************************************************)
\* C3: however many handler runs find the end marker while a container is in
\* STREAMING, the container makes at most one STREAMING->FINAL transition; it
\* is FINAL exactly when that transition was made, and then the shortener has
\* written its markup twice (placeholder, final markup) and no more.
C3_OneFinalTransition ==
    \A c \in Containers :
        /\ finals[c] <= 1
        /\ writes[c] <= 2
        /\ (phase[c] = "final" <=> finals[c] = 1)
        /\ (phase[c] = "final" => writes[c] = 2)

\* C3 witness: two handler runs found the end marker, then the container was
\* finalized once.
C3_Witness ==
    endSeen["c1"] = 2 /\ finals["c1"] = 1 /\ phase["c1"] = "final"

C5_FinalIsAbsorbing ==
    [][ \A c \in Containers :
            phase[c] = "final"
            => /\ phase'[c] = "final"
               /\ writes'[c] = writes[c]
               /\ prefixAttr'[c] = prefixAttr[c]
               /\ timers'[c] = {} ]_vars

\* C5 witness: a throttled handler run found the container FINAL, with a start
\* marker in the markup.
C5_Witness ==
    /\ phase["c1"] = "final" /\ lastSeen["c1"] = "final"
    /\ Includes(html["c1"], START_TAG_ESCAPED)

\* the page's markup of a message, split at its first start marker and the
\* first end marker after it
MessageStart(c) == IndexOf(pageHtml[c], START_TAG_ESCAPED)
MessageRest(c) == SubstringFrom(pageHtml[c], MessageStart(c) + 1)
MessageEnd(c) == IndexOf(MessageRest(c), END_TAG_ESCAPED)
MessagePrefix(c) == Substring(pageHtml[c], 0, MessageStart(c))
MessageBody(c) == Substring(MessageRest(c), 0, MessageEnd(c))
MessageSuffix(c) == SubstringFrom(MessageRest(c), MessageEnd(c) + 1)
IsPlain(str) == \A i \in 1..Len(str) : str[i] = "a"

\* C6: when a message of the form prefix, start marker, body, end marker,
\* suffix (body and suffix without marker text) has been finalized, its markup
\* is prefix + placeholder + suffix.
C6_PrefixPreserved ==
    \A c \in Containers :
        ( /\ phase[c] = "final"
          /\ MessageStart(c) > -1
          /\ MessageEnd(c) > -1
          /\ IsPlain(MessageBody(c)) /\ IsPlain(MessageSuffix(c)) )
        => html[c] = MessagePrefix(c) \o <<Placeholder>> \o MessageSuffix(c)

\* C7: when a finalize timer fires and the markup has no end marker, the
\* container stays in STREAMING with its markup, its captured prefix and its
\* observer as they were.
C7_MarkerVanishReverts ==
    [][ \A c \in Containers : \A id \in TimerIds :
            (DebounceFires(c, id) /\ ~Includes(html[c], END_TAG_ESCAPED))
            => /\ phase[c] = "streaming" /\ phase'[c] = "streaming"
               /\ html'[c] = html[c]
               /\ prefixAttr'[c] = prefixAttr[c]
               /\ shortenObserverMap'[c] = shortenObserverMap[c]
               /\ finals'[c] = 0 ]_vars

\* C7 witness: the timer fired after the end marker was taken back: the map
\* still holds its id, no timer is pending, the observer is connected.
C7_Witness ==
    /\ phase["c1"] = "streaming" /\ endSeen["c1"] >= 1
    /\ debounceTimerMap["c1"] # 0 /\ timers["c1"] = {}
    /\ ~Includes(html["c1"], END_TAG_ESCAPED)
    /\ shortenObserverMap["c1"]

\* a step of the shortener for container a
ShortenerActsOn(a) ==
    \/ InitializeShortening(a)
    \/ ThrottleFires(a)
    \/ \E id \in TimerIds : DebounceFires(a, id)
    \/ CleanupShortening(a)

\* C8: a step of the shortener for container a leaves every other container's
\* phase, markup, captured prefix, timers, observer and throttle as they were.
C8_DisjointContainers ==
    [][ \A a \in Containers :
            ShortenerActsOn(a)
            => \A b \in Containers \ {a} :
                  /\ phase'[b] = phase[b]
                  /\ html'[b] = html[b]
                  /\ prefixAttr'[b] = prefixAttr[b]
                  /\ debounceTimerMap'[b] = debounceTimerMap[b]
                  /\ timers'[b] = timers[b]
                  /\ shortenObserverMap'[b] = shortenObserverMap[b]
                  /\ throttleTimeout'[b] = throttleTimeout[b]
                  /\ shortenInit'[b] = shortenInit[b] ]_vars

\* C8 witness: c1 was finalized while c2 is in STREAMING with its observer
\* connected and its finalize timer pending.
C8_Witness ==
    /\ phase["c1"] = "final"
    /\ phase["c2"] = "streaming" /\ shortenObserverMap["c2"] /\ timers["c2"] # {}

\* C17: a container's phase changes only from INITIAL to STREAMING and from
\* STREAMING to FINAL, and the shortener writes the container's markup only
\* in a step that makes one of these two changes, once per change.
C17_PhaseOnlyForward ==
    [][ \A c \in Containers :
            /\ phase'[c] # phase[c]
                => \/ phase[c] = "initial" /\ phase'[c] = "streaming"
                   \/ phase[c] = "streaming" /\ phase'[c] = "final"
            /\ writes'[c] # writes[c]
                => phase'[c] # phase[c] /\ writes'[c] = writes[c] + 1
            /\ (html'[c] # html[c] /\ pageMutations' = pageMutations)
                => phase'[c] # phase[c] ]_vars

\* C17 witness: c1 went through both transitions with one write each, and the
\* handler has looked at c2, which has no marker, and left it in INITIAL.
C17_Witness ==
    /\ phase["c1"] = "final" /\ writes["c1"] = 2 /\ html["c1"] = <<Placeholder>>
    /\ phase["c2"] = "initial" /\ lastSeen["c2"] = "initial"
    /\ html["c2"] = <<"a">> /\ writes["c2"] = 0

\* C18: a container has at most one finalize timer pending, and a pending
\* timer is the one whose id debounceTimerMap holds, the latest one set.
C18_OneDebounceTimer ==
    \A c \in Containers :
        /\ Cardinality(timers[c]) <= 1
        /\ timers[c] \subseteq {debounceTimerMap[c]}

\* C18 witness: the page made three mutations to c1 and two handler runs
\* found the end marker, so the second run replaced a pending timer.
C18_Witness ==
    /\ pageMutations = 3 /\ pageHtml["c2"] = <<>>
    /\ phase["c1"] = "streaming" /\ endSeen["c1"] = 2
    /\ timers["c1"] # {}

Registry(s) ==
    <<s.html, s.phase, s.prefixAttr, s.shortenInit, s.shortenObserverMap,
      s.observers, s.debounceTimerMap, s.timers, s.throttleTimeout>>

C26_PrefixExactlyWhileStreaming ==
    [][ \A c \in Containers :
          /\ prefixAttr'[c].has <=> phase'[c] = "streaming"
          /\ ~prefixAttr'[c].has => prefixAttr'[c].val = <<>>
          /\ (phase[c] = "streaming" /\ phase'[c] = "streaming")
                => prefixAttr'[c] = prefixAttr[c]
          /\ (phase[c] = "initial" /\ phase'[c] = "streaming")
                => ~prefixAttr[c].has /\ prefixAttr'[c].has
          /\ (phase[c] = "streaming" /\ phase'[c] = "final")
                => prefixAttr[c].has /\ ~prefixAttr'[c].has ]_vars

\* C26 witness: one container is FINAL after a STREAMING phase with a
\* non-empty prefix, the other is STREAMING with the empty prefix recorded.
C26_Witness ==
    /\ phase["c1"] = "final" /\ ~prefixAttr["c1"].has
    /\ html["c1"] = <<"a", Placeholder>>
    /\ phase["c2"] = "streaming" /\ prefixAttr["c2"] = [has |-> TRUE, val |-> <<>>]

\* C29: a handler run that finds the container in INITIAL with the start
\* marker in its markup records as the prefix the markup before the first
\* start marker, makes the markup that prefix followed by the placeholder and
\* the phase STREAMING; one that finds no start marker leaves markup, prefix
\* and phase as they are; neither sets a timer.
C29_InitialBranch ==
    [][ \A c \in Containers :
          (ThrottleFires(c) /\ phase[c] = "initial")
          => /\ \/ /\ \E i \in 1..Len(html[c]) : html[c][i] = START_TAG_ESCAPED
                   /\ LET p == prefixAttr'[c].val
                      IN /\ prefixAttr'[c].has
                         /\ Len(p) < Len(html[c])
                         /\ p = SubSeq(html[c], 1, Len(p))
                         /\ html[c][Len(p) + 1] = START_TAG_ESCAPED
                         /\ \A i \in 1..Len(p) : p[i] # START_TAG_ESCAPED
                         /\ html'[c] = Append(p, Placeholder)
                   /\ phase'[c] = "streaming"
                \/ /\ \A i \in 1..Len(html[c]) : html[c][i] # START_TAG_ESCAPED
                   /\ html'[c] = html[c]
                   /\ prefixAttr'[c] = prefixAttr[c]
                   /\ phase'[c] = "initial"
             /\ timers' = timers /\ debounceTimerMap' = debounceTimerMap ]_vars

\* C29 witness: the handler took a container to STREAMING whose markup had
\* content on both sides of the start marker, and left the other container,
\* which has no start marker, in INITIAL.
C29_Witness ==
    /\ phase["c1"] = "streaming" /\ lastSeen["c1"] = "initial"
    /\ pageHtml["c1"] = <<"a", START_TAG_ESCAPED, "a">>
    /\ html["c1"] = <<"a", Placeholder>>
    /\ prefixAttr["c1"] = [has |-> TRUE, val |-> <<"a">>]
    /\ phase["c2"] = "initial" /\ lastSeen["c2"] = "initial"
    /\ html["c2"] = <<"a">> /\ ~throttleTimeout["c2"]

\* C30: a handler run that finds the container in STREAMING leaves its
\* markup, its prefix and its phase as they are; when the end marker is in
\* the markup it clears the pending finalize timer and sets one new timer,
\* when it is not it changes nothing of the shortener.
C30_StreamingBranch ==
    [][ \A c \in Containers :
          (ThrottleFires(c) /\ phase[c] = "streaming")
          => /\ html' = html /\ prefixAttr' = prefixAttr /\ phase' = phase
             /\ UNCHANGED <<shortenInit, shortenObserverMap, observers, finals>>
             /\ \A x \in Containers \ {c} :
                   timers'[x] = timers[x]
                   /\ debounceTimerMap'[x] = debounceTimerMap[x]
             /\ IF \E i \in 1..Len(html[c]) : html[c][i] = END_TAG_ESCAPED
                THEN /\ Cardinality(timers'[c]) = 1
                     /\ timers'[c] = {debounceTimerMap'[c]}
                ELSE /\ timers'[c] = timers[c]
                     /\ debounceTimerMap'[c] = debounceTimerMap[c] ]_vars

\* C30 witness: the handler ran in STREAMING on markup that has grown below
\* the placeholder without the end marker, and set no timer.
C30_Witness ==
    /\ phase["c1"] = "streaming" /\ lastSeen["c1"] = "streaming"
    /\ html["c1"] = <<Placeholder, "a", "a">>
    /\ endSeen["c1"] = 0 /\ timers["c1"] = {}
    /\ ~throttleTimeout["c1"]

\* C31: a wired container in STREAMING whose markup holds the end marker
\* reaches FINAL unless the end marker leaves the markup or the container is
\* torn down first; a step that finds a container in STREAMING without the
\* end marker in its markup leaves it in STREAMING, and the shortener does
\* not write its markup.
C31_EndMarkerFinalizes ==
    /\ (phase["c1"] = "streaming" /\ Includes(html["c1"], END_TAG_ESCAPED)
           /\ shortenObserverMap["c1"])
       ~> (phase["c1"] = "final" \/ ~Includes(html["c1"], END_TAG_ESCAPED)
           \/ ~shortenObserverMap["c1"])
    /\ [][ \A c \in Containers :
             (phase[c] = "streaming" /\ ~Includes(html[c], END_TAG_ESCAPED))
             => /\ phase'[c] = "streaming"
                /\ writes'[c] = writes[c]
                /\ prefixAttr'[c] = prefixAttr[c] ]_vars

\* C31 witness: a container reached FINAL after a second handler run, for a
\* mutation that followed the end marker, had superseded its finalize timer.
C31_Witness ==
    /\ phase["c1"] = "final" /\ finals["c1"] = 1 /\ endSeen["c1"] = 2
    /\ pageHtml["c1"] = <<"a", START_TAG_ESCAPED, END_TAG_ESCAPED, "a">>
    /\ html["c1"] = <<"a", Placeholder, "a">>
    /\ ~throttleTimeout["c1"] /\ timers["c1"] = {}

\* the container was wired and has been torn down short of FINAL
TornDown(c) ==
    shortenInit[c] /\ ~shortenObserverMap[c] /\ phase[c] # "final"

\* C32: once cleanupShorteningForContainer has returned for a container that
\* is not FINAL, no handler run and no timer callback writes its markup,
\* changes its phase or its prefix, or sets a finalize timer for it.
C32_NothingAfterCleanup ==
    [][ \A c \in Containers :
          (TornDown(c) /\ (ThrottleFires(c) \/ \E id \in TimerIds : DebounceFires(c, id)))
          => /\ html'[c] = html[c] /\ phase'[c] = phase[c]
             /\ prefixAttr'[c] = prefixAttr[c]
             /\ timers'[c] \subseteq timers[c] ]_vars

\* C35: when the page has put the start marker and, after it, the end marker
\* into a message, the container is wired and neither a handler run nor a
\* finalize timer is pending for it, the container is FINAL.
C35_CompleteContentFinalizes ==
    \A c \in Containers :
        ( /\ shortenObserverMap[c]
          /\ ~throttleTimeout[c] /\ timers[c] = {}
          /\ \E i, j \in 1..Len(pageHtml[c]) :
                /\ i < j
                /\ pageHtml[c][i] = START_TAG_ESCAPED
                /\ pageHtml[c][j] = END_TAG_ESCAPED )
        => phase[c] = "final"

\* C36: a step from STREAMING to FINAL finds an end marker behind the
\* placeholder that follows the captured prefix, and leaves as markup the
\* prefix, the placeholder and what followed that end marker.
C36_FinalizedByMarkerAfterStart ==
    [][ \A c \in Containers :
          (phase[c] = "streaming" /\ phase'[c] = "final")
          => LET p == prefixAttr[c].val
             IN \E j \in (Len(p) + 2)..Len(html[c]) :
                   /\ html[c][j] = END_TAG_ESCAPED
                   /\ \A k \in (Len(p) + 2)..(j - 1) : html[c][k] # END_TAG_ESCAPED
                   /\ html'[c] = p \o <<Placeholder>>
                                   \o SubSeq(html[c], j + 1, Len(html[c])) ]_vars

\* C37: a call of initializeShorteningForContainer for a container that has
\* a content area, no connected observer and is not FINAL connects an
\* observer and schedules the immediate check.
C37_RewiredAfterCleanup ==
    [][ \A c \in Containers :
          (InitializeShortening(c) /\ hasArea[c] /\ ~shortenObserverMap[c]
              /\ phase[c] # "final")
          => /\ shortenObserverMap'[c] /\ observers'[c] = 1
             /\ throttleTimeout'[c]
             /\ ~rewireRefused'[c] ]_vars

(***************************************************************************)
(* Claims about the scanner and the shorten switch                         *)
(***************************************************************************)
\* C21: a message container that has been removed from the document has no
\* connected observer and no pending finalize timer, and no finalize callback
\* runs for it.
C21_RemovedIsTornDown ==
    [][ \A c \in Containers :
          /\ container'[c] = "removed"
                => observers'[c] = 0 /\ timers'[c] = {}
          /\ \A id \in TimerIds :
                DebounceFires(c, id) => container[c] # "removed" ]_vars

C24_ProcessedIsWired ==
    isShortenEnabled
    => \A c \in Containers :
          (container[c] = "attached" /\ processed[c])
          => (shortenObserverMap[c] \/ phase[c] = "final")

(***************************************************************************)
(* Claims about the background relay                                       *)
(***************************************************************************)
\* C27: for every message the relay receives sendResponse is called at most
\* once, and exactly once when the handling has settled: with success when
\* the handler of the type completed, with failure when it threw or the type
\* is unknown; no error leaves the listener.
C27_AnsweredExactlyOnce ==
    \A id \in RequestIds :
       LET r == requests[id]
       IN /\ Len(r.responses) <= 1
          /\ ~r.escaped
          /\ r.stage \in {"unsent", "handling"} => r.responses = <<>>
          /\ r.stage = "settled" => Len(r.responses) = 1
          /\ r.outcome = "completed" => r.responses = <<"success">>
          /\ r.outcome \in {"threw", "unknown"} => r.responses = <<"failure">>
          /\ (r.stage = "settled" /\ r.type \notin MessageTypes)
                => r.responses = <<"failure">>
          /\ (r.stage = "settled" /\ r.type \in MessageTypes)
                => r.outcome \in {"completed", "threw"}

\* C27 witness: one message was answered with its handler's data, another,
\* whose payload its handler rejects, with the failure.
C27_Witness ==
    /\ requests[1].type = "GET_CLIENTS" /\ requests[1].outcome = "completed"
    /\ requests[1].responses = <<"success">>
    /\ requests[2].type = "GENERATE_PROMPT" /\ ~requests[2].payloadOk
    /\ requests[2].outcome = "threw" /\ requests[2].responses = <<"failure">>

(***************************************************************************)
(* Claims about the keep-active module, the lifecycle and throttle         *)
(***************************************************************************)
\* C38: in the keep-active module isActive is true exactly when the DOM-ping
\* interval is installed, at most one frame callback and at most one ping
\* interval are pending, nothing is scheduled while it is inactive, and a start
\* while active or a stop while inactive changes nothing.
C38_KeepActiveConsistent ==
    /\ [](/\ keepActive.isActive <=> keepActive.intervals # {}
          /\ keepActive.isActive <=> keepActive.domPingIntervalId # NO_ID
          /\ Cardinality(keepActive.frames) <= 1
          /\ Cardinality(keepActive.intervals) <= 1
          /\ ~keepActive.isActive
                => keepActive.frames = {} /\ keepActive.intervals = {})
    /\ [][ (/\ keepActive'.calls # keepActive.calls
            /\ keepActive'.isActive = keepActive.isActive)
           => keepActive' = [Called(keepActive) EXCEPT
                                !.startupRead = keepActive'.startupRead] ]_vars

\* started, frames run, a ping run, stopped, started and stopped again
C38_Witness ==
    /\ ~keepActive.isActive /\ keepActive.installed = 2
    /\ keepActive.requested = 4 /\ keepActive.pings = 1
    /\ keepActive.rafId = NO_ID /\ keepActive.frames = {}

\* C33: whatever the order of initialize(), dismantle() and the settings-read
\* callbacks, at most one scanner interval is scheduled, and none is scheduled
\* while dismantle() is the last lifecycle call.
C33_OneScannerInterval ==
    /\ Cardinality(lifecycle.intervals) <= 1
    /\ lifecycle.lastCall = "dismantle" => lifecycle.intervals = {}

=============================================================================
